---- MODULE Spec2Model ----
(***************************************************************************)
(* The connection supervisor of the Hailo Libero adapter (class            *)
(* HailoLibero) and the session handling of its device client (class       *)
(* HailoClient).  Every async function is a task whose program counter     *)
(* names the await it is suspended at; one action resumes one task from    *)
(* one await to the next.  The device, the state store of the host and     *)
(* the timers of the host are the environment: a request is answered with  *)
(* any reply of a small set, a setState resolves or rejects, an armed      *)
(* timer may fire.  Spec is the supervisor (onReady, connectToDevice, the   *)
(* timers, onUnload); CmdSpec is onStateChange with the command methods of *)
(* the client; WriteSpec is writeSettings and restart with their           *)
(* arguments; SettingsSpec is onStateChange for the settings states;       *)
(* EventSpec is onStateChange for deleted and acknowledged changes too;    *)
(* ParseSpec is the extraction of settings and info from a page;           *)
(* MessageSpec is onMessage.  All share the session of the client.         *)
(***************************************************************************)
EXTENDS Bags, FiniteSets, Integers, Sequences, TLC

\* ------------------------------------------------------------- bounds
\* poll callbacks that may be suspended in a fetch at the same time
MaxTicks == 2
\* connectToDevice activations that may be in progress at the same time
MaxRuns == 2
\* timer handles of one kind that may be told apart
NumHandles == 3
\* client commands that may be in progress at the same time
MaxCmds == 2
\* unacknowledged control.open = true changes the handler is given
MaxTriggers == 2
\* calls of a command method by a caller other than onStateChange in flight
MaxCalls == 1
\* inputs of a page handed to the extraction
MaxInputs == 2

\* ---------------------------------------------------------- constants
\* the value of a timer field that holds no handle (null)
NoHandle == 0
\* const reconnectDelay = 60000
ReconnectDelay == 60000
\* (this.config.pollInterval || 30)
DefaultPollSeconds == 30
\* the value of a settings field that was not given (undefined) and of a
\* state that does not exist (null)
Undefined == -1
\* the fields of the settings form, and the state each mirrors
SettingKeys == {"led", "pwr", "dist"}
StateName ==
    [f \in SettingKeys |->
        CASE f = "led" -> "settings.ledBrightness"
          [] f = "pwr" -> "settings.ejectionForce"
          [] f = "dist" -> "settings.distance"]
\* the values onStateChange sends for a setting it finds no value of
DefaultSetting ==
    [f \in SettingKeys |-> CASE f = "led" -> 5 [] f = "pwr" -> 5 [] f = "dist" -> 50]
\* a state that was never written
NoState == [val |-> Undefined, ack |-> FALSE]
\* config.pollInterval values of the instance, seconds; 0 stands for "not
\* configured" (any falsy value)
PollIntervalConfigs == {0, 1, 5, 600}

Handles == 1..NumHandles

VARIABLES
    cfgDeviceIp,       \* this.config.deviceIp is set
    cfgPollInterval,   \* this.config.pollInterval, seconds
    ready,             \* onReady has run
    isConnected,       \* this.isConnected
    pollInterval,      \* this.pollInterval: a handle or NoHandle
    reconnectTimeout,  \* this.reconnectTimeout: a handle or NoHandle
    authenticated,     \* client.authenticated
    sessionCookie,     \* client.sessionCookie: "none" or a cookie
    pollTimers,        \* interval timers armed at the host: [h, delay]
    reconnectTimers,   \* timeout timers armed at the host: [h, delay]
    tasks,             \* bag of the async activations in progress
    connection,        \* the host's info.connection state: "unset", "true", "false"
    unload,            \* progress of onUnload
    callbackCalls,     \* how often onUnload's callback was invoked
    connIssued,        \* the value of the last setState(info.connection) call: "none", "true", "false"
    lateEmit,          \* a setState was issued by a task after onUnload ran
    unloadSnap,        \* what onUnload found and left when it ran
    pollFailed,        \* a poll fetch failed with a network error since the last connect
    lastCall,          \* the call that returned last (checkAuth, authenticate, a command method, onStateChange): what it was given and what it did
    lastFetch,         \* the answer to the last GET / of a fetch and what the update function set out to emit
    lastRun,           \* what the connectToDevice activation that finished last did
    triggers,          \* how many state changes onStateChange was given that made it call the client
    pushes,            \* how many GET /push requests were sent
    stored             \* the settings states of the host: value and ack flag of each

vars == <<cfgDeviceIp, cfgPollInterval, ready, isConnected, pollInterval,
          reconnectTimeout, authenticated, sessionCookie, pollTimers,
          reconnectTimers, tasks, connection, unload, callbackCalls, connIssued,
          lateEmit, unloadSnap, pollFailed, lastCall, lastFetch, lastRun,
          triggers, pushes, stored>>

cfgVars == <<cfgDeviceIp, cfgPollInterval>>
sessionVars == <<authenticated, sessionCookie>>
pollVars == <<pollInterval, pollTimers>>
reconnectVars == <<reconnectTimeout, reconnectTimers>>
unloadVars == <<unload, callbackCalls, unloadSnap>>
emitVars == <<connIssued, lateEmit>>
cmdVars == <<triggers, pushes, stored>>

\* ------------------------------------------------------------ replies
\* answers of the device to POST /login; status 0 is "no response"
LoginReplies ==
    { [status |-> 200, location |-> "",       cookie |-> "c1"],
      [status |-> 200, location |-> "",       cookie |-> "none"],
      [status |-> 301, location |-> "/",      cookie |-> "c1"],
      [status |-> 301, location |-> "/login", cookie |-> "none"],
      [status |-> 401, location |-> "",       cookie |-> "none"],
      [status |-> 0,   location |-> "",       cookie |-> "none"] }

\* answers of the device to the probe GET / of checkAuth; 0 is "no response"
ProbeStatuses == {0, 200, 301, 500}

\* outcomes of a setState of the host
EmitOutcomes == {"ok", "reject"}

\* ----------------------------------------------------------- strings
\* A string is the sequence of its characters.
Whitespace == {" ", "\n"}

RECURSIVE TrimStart(_)
TrimStart(s) ==
    IF s # <<>> /\ Head(s) \in Whitespace THEN TrimStart(Tail(s)) ELSE s

RECURSIVE TrimEnd(_)
TrimEnd(s) ==
    IF s # <<>> /\ s[Len(s)] \in Whitespace
    THEN TrimEnd(SubSeq(s, 1, Len(s) - 1))
    ELSE s

\* String.prototype.trim
Trim(s) == TrimEnd(TrimStart(s))

\* an attribute of an element: attr(name) is a string, or undefined when the
\* element does not carry it
Attr(chars) == [has |-> TRUE, chars |-> chars]
NoAttr == [has |-> FALSE, chars |-> <<>>]

\* an <input> of the page: its type and name ("" when it has none), its
\* value, min and max attributes, whether it is checked and whether it
\* carries class button
Input(type, name, value, min, max, checked, button) ==
    [type |-> type, name |-> name, value |-> value, min |-> min, max |-> max,
     checked |-> checked, button |-> button]

Range(name, value, min, max) ==
    Input("range", name, Attr(value), Attr(min), Attr(max), FALSE, FALSE)

\* a <span> of the first paragraph, by the node that follows it: a text
\* node with its text, an element, or nothing
Marker(next, chars) == [next |-> next, chars |-> chars]

TextMarkers ==
    <<Marker("text", <<":", " ", "L">>), Marker("text", <<":", "1">>),
      Marker("text", <<" ", "o", "k", "\n">>), Marker("text", <<"x">>),
      Marker("text", <<":", " ", "i", "p">>), Marker("text", <<"m", ":">>)>>

\* pages GET / may deliver: the inputs of the page in document order, whether
\* it has a <p>, and the <span> markers of its first <p>
Pages ==
    { [inputs |-> <<Range("led", <<"5">>, <<"0">>, <<"1", "0">>),
                    Range("pwr", <<"3">>, <<"1">>, <<"9">>),
                    Range("dist", <<"3", "0">>, <<"0">>, <<"6", "0">>)>>,
       para |-> TRUE, spans |-> TextMarkers],
      [inputs |-> <<Input("text", "pin", Attr(<<"1">>), NoAttr, NoAttr, FALSE, FALSE)>>,
       para |-> FALSE, spans |-> <<>>],
      [inputs |-> <<Range("led", <<"5">>, <<"0">>, <<"1", "0">>)>>,
       para |-> TRUE,
       spans |-> [TextMarkers EXCEPT ![2] = Marker("element", <<>>)]] }

NoPage == [inputs |-> <<>>, para |-> FALSE, spans |-> <<>>]

\* answers to the GET / of getDeviceInfo and readSettings: a page, or an
\* error (a network error or a status axios rejects)
GetResults ==
    {[ok |-> TRUE, page |-> p] : p \in Pages}
    \cup {[ok |-> FALSE, page |-> NoPage]}

\* the inputs the pages handed to the extraction are made of
InputElements ==
    { Range("led", <<"5">>, <<"0">>, <<"1", "0">>),
      Input("range", "led", Attr(<<"x">>), NoAttr, NoAttr, FALSE, FALSE),
      Input("radio", "ipconf", Attr(<<"1">>), NoAttr, NoAttr, TRUE, FALSE),
      Input("radio", "ipconf", Attr(<<"0">>), NoAttr, NoAttr, FALSE, FALSE),
      Input("hidden", "ipconf", Attr(<<"0">>), NoAttr, NoAttr, FALSE, FALSE),
      Range("ipconf", <<"1">>, <<"0">>, <<"1">>),
      Input("text", "ip", Attr(<<"1", ".", "2">>), NoAttr, NoAttr, FALSE, FALSE),
      Input("text", "", Attr(<<"7">>), NoAttr, NoAttr, FALSE, FALSE),
      Input("checkbox", "foo", NoAttr, NoAttr, NoAttr, FALSE, FALSE),
      Input("submit", "save", Attr(<<"S">>), NoAttr, NoAttr, FALSE, TRUE) }

\* the span lists of their first paragraph
SpanLists ==
    { <<>>,
      SubSeq(TextMarkers, 1, 3),
      TextMarkers,
      TextMarkers \o <<Marker("text", <<"z">>)>>,
      [TextMarkers EXCEPT ![2] = Marker("text", <<" ">>)],
      [TextMarkers EXCEPT ![2] = Marker("element", <<>>)],
      [TextMarkers EXCEPT ![4] = Marker("element", <<>>)],
      [TextMarkers EXCEPT ![5] = Marker("none", <<>>)] }

\* pages handed to parseSettingsAndInfoFromHtml: up to MaxInputs inputs, and
\* no paragraph or a first paragraph with one of the span lists
ParsePages ==
    { [inputs |-> els, para |-> para, spans |-> spans] :
        els \in UNION {[1..n -> InputElements] : n \in 0..MaxInputs},
        para \in BOOLEAN, spans \in SpanLists }

\* validateStatus: (status) => status >= 200 && status < 400
ValidateStatus(status) == status >= 200 /\ status < 400

\* axios settles a response: it resolves when validateStatus accepts the
\* status and rejects otherwise; without a response it rejects
AxiosResolves(status) == status # 0 /\ ValidateStatus(status)

\* HailoClient.authenticate: [ret, authenticated, sessionCookie] after the
\* device answered the login POST with reply
Authenticate(reply) ==
    IF AxiosResolves(reply.status)
    THEN \* "Authentication did not redirect; treating as failure"
         [ret |-> FALSE, authenticated |-> FALSE, sessionCookie |-> sessionCookie]
    ELSE IF reply.status = 301 /\ reply.location = "/"
         THEN [ret |-> TRUE, authenticated |-> TRUE,
               sessionCookie |-> IF reply.cookie # "none" THEN reply.cookie
                                                        ELSE sessionCookie]
         ELSE [ret |-> FALSE, authenticated |-> FALSE, sessionCookie |-> sessionCookie]

\* checkAuth as it would be if every status axios resolves counted as
\* authenticated
CheckAuth_AnyResolved(status) ==
    IF ~AxiosResolves(status)
    THEN [ret |-> FALSE, authenticated |-> authenticated]
    ELSE [ret |-> TRUE, authenticated |-> TRUE]

\* checkAuth as it would be if its catch block marked the session
\* unauthenticated
CheckAuth_ErrorResets(status) ==
    IF ~AxiosResolves(status)
    THEN [ret |-> FALSE, authenticated |-> FALSE]
    ELSE IF status = 200 THEN [ret |-> TRUE, authenticated |-> TRUE]
    ELSE IF status = 301 THEN [ret |-> FALSE, authenticated |-> FALSE]
    ELSE [ret |-> FALSE, authenticated |-> authenticated]

\* HailoClient.checkAuth: [ret, authenticated] after the probe was answered
CheckAuth(status) ==
    IF ~AxiosResolves(status)
    THEN [ret |-> FALSE, authenticated |-> authenticated]
    ELSE IF status = 200 THEN [ret |-> TRUE, authenticated |-> TRUE]
    ELSE IF status = 301 THEN [ret |-> FALSE, authenticated |-> FALSE]
    ELSE [ret |-> FALSE, authenticated |-> authenticated]

\* parseInt(string, 10): the number, or NaN
NaN == [nan |-> TRUE, n |-> 0]

DigitValue ==
    [c \in {"0", "1", "2", "3", "4", "5", "6", "7", "8", "9"} |->
        CASE c = "0" -> 0 [] c = "1" -> 1 [] c = "2" -> 2 [] c = "3" -> 3
          [] c = "4" -> 4 [] c = "5" -> 5 [] c = "6" -> 6 [] c = "7" -> 7
          [] c = "8" -> 8 [] c = "9" -> 9]

\* the longest prefix of s made of digits
RECURSIVE DigitPrefix(_)
DigitPrefix(s) ==
    IF s # <<>> /\ Head(s) \in DOMAIN DigitValue
    THEN <<Head(s)>> \o DigitPrefix(Tail(s))
    ELSE <<>>

RECURSIVE DecimalValue(_)
DecimalValue(digits) ==
    IF digits = <<>> THEN 0
    ELSE 10 * DecimalValue(SubSeq(digits, 1, Len(digits) - 1))
         + DigitValue[digits[Len(digits)]]

\* parseInt(attr, 10): undefined reads as "undefined"; leading white space
\* is skipped, a sign is taken, then the digits up to the first other character
ParseInt(attr) ==
    IF ~attr.has THEN NaN
    ELSE LET s == TrimStart(attr.chars)
             signed == s # <<>> /\ Head(s) \in {"-", "+"}
             digits == DigitPrefix(IF signed THEN Tail(s) ELSE s)
         IN IF digits = <<>> THEN NaN
            ELSE [nan |-> FALSE,
                  n |-> IF signed /\ Head(s) = "-" THEN 0 - DecimalValue(digits)
                        ELSE DecimalValue(digits)]

\* an object without properties
EmptyObject == [n \in {} |-> NaN]

\* the callback of $("input:not(.button)").each returns without an entry
Skipped(el) ==
    \/ el.button
    \/ el.type = "radio" /\ ~el.checked
    \/ el.name = ""

\* settings[name] for an input that is not skipped
InputValue(el) ==
    IF el.type = "range"
    THEN [kind |-> "range", value |-> ParseInt(el.value), min |-> ParseInt(el.min),
          max |-> ParseInt(el.max)]
    ELSE IF el.name = "ipconf"
         THEN [kind |-> "boolean", b |-> (el.value = Attr(<<"1">>))]
         ELSE [kind |-> "attr", attr |-> el.value]

\* the each loop as it would be with the selector "input"
RECURSIVE ParseInputs_AllInputs(_)
ParseInputs_AllInputs(els) ==
    IF els = <<>> THEN EmptyObject
    ELSE LET el == els[Len(els)]
             rest == ParseInputs_AllInputs(SubSeq(els, 1, Len(els) - 1))
         IN IF (el.type = "radio" /\ ~el.checked) \/ el.name = "" THEN rest
            ELSE (el.name :> InputValue(el)) @@ rest

\* the each loop over the inputs: settings, a later input of a name
\* replacing an earlier one
RECURSIVE ParseInputs(_)
ParseInputs(els) ==
    IF els = <<>> THEN EmptyObject
    ELSE LET el == els[Len(els)]
             rest == ParseInputs(SubSeq(els, 1, Len(els) - 1))
         IN IF Skipped(el) THEN rest
            ELSE (el.name :> InputValue(el)) @@ rest

\* text.replace(/^:/, "")
StripColon(s) == IF s # <<>> /\ Head(s) = ":" THEN Tail(s) ELSE s

\* getNextText(spanNode): null without a next sibling; the nodeValue of an
\* element is not a string and .trim() on it throws
GetNextText(span) ==
    IF span.next = "none" THEN [threw |-> FALSE, kind |-> "null", chars |-> <<>>]
    ELSE IF span.next = "element"
         THEN [threw |-> TRUE, kind |-> "null", chars |-> <<>>]
         ELSE [threw |-> FALSE, kind |-> "string",
               chars |-> Trim(StripColon(Trim(span.chars)))]

\* the info fields and the index of the span each is read after
InfoFields == {"device", "firmware", "status", "dhcp_ip", "dhcp_subnet"}

SpanIndex(field) ==
    CASE field = "device" -> 1 [] field = "firmware" -> 2 [] field = "status" -> 3
      [] field = "dhcp_ip" -> 5 [] field = "dhcp_subnet" -> 6

\* the number of spans the extraction asks for
MinSpans == 6

\* parseSettingsAndInfoFromHtml as it would be without the test of spans.length
ParseSettingsAndInfoFromHtml_NoLengthTest(page) ==
    LET got == [f \in InfoFields |->
                   IF SpanIndex(f) <= Len(page.spans)
                   THEN GetNextText(page.spans[SpanIndex(f)])
                   ELSE [threw |-> FALSE, kind |-> "null", chars |-> <<>>]]
    IN IF \E f \in InfoFields : got[f].threw
       THEN [threw |-> TRUE, settings |-> EmptyObject, info |-> EmptyObject]
       ELSE [threw |-> FALSE, settings |-> ParseInputs(page.inputs),
             info |-> [f \in InfoFields |->
                          [kind |-> got[f].kind, chars |-> got[f].chars]]]

\* parseSettingsAndInfoFromHtml: it throws, or returns {settings, info}
ParseSettingsAndInfoFromHtml(page) ==
    IF Len(page.spans) >= MinSpans
    THEN LET got == [f \in InfoFields |-> GetNextText(page.spans[SpanIndex(f)])]
         IN IF \E f \in InfoFields : got[f].threw
            THEN [threw |-> TRUE, settings |-> EmptyObject, info |-> EmptyObject]
            ELSE [threw |-> FALSE, settings |-> ParseInputs(page.inputs),
                  info |-> [f \in InfoFields |->
                               [kind |-> got[f].kind, chars |-> got[f].chars]]]
    ELSE [threw |-> FALSE, settings |-> ParseInputs(page.inputs),
          info |-> EmptyObject]

\* the value of info[field] is truthy: a string that is not empty
Truthy(info, field) ==
    /\ field \in DOMAIN info
    /\ info[field].kind = "string"
    /\ info[field].chars # <<>>

\* the top-level properties of the object getDeviceInfo and readSettings return
ResultKeys == {"settings", "info"}

\* updateDeviceInfo: the states it sets for a parsed page, in order
InfoTodo(parsed) ==
    (IF Truthy(parsed.info, "firmware") THEN <<"info.firmware">> ELSE <<>>)
    \o (IF Truthy(parsed.info, "device") THEN <<"info.model">> ELSE <<>>)

\* updateDeviceStatus: the states it sets for the object readSettings
\* returned, in order; it tests settings.led, settings.dist and settings.pwr
\* on that object itself
StatusTodo(parsed) ==
    (IF "led" \in ResultKeys THEN <<"settings.ledBrightness">> ELSE <<>>)
    \o (IF "dist" \in ResultKeys THEN <<"settings.distance">> ELSE <<>>)
    \o (IF "pwr" \in ResultKeys THEN <<"settings.ejectionForce">> ELSE <<>>)

\* ------------------------------------------------------------- tasks
\* A task is one activation of an async function.  kind "connect" is a
\* connectToDevice activation, kind "tick" one callback of the polling
\* interval.  pc names the await the task is suspended at:
\*   test         await this.client.testConnection()
\*   emitUnreach  await this.setState("info.connection", false)   (unreachable)
\*   auth         await this.client.authenticate()
\*   emitConn     await this.setState("info.connection", true)
\*   catchEmit    await this.setState("info.connection", false)   (catch)
\*   probe, login, get   the requests of getDeviceInfo / readSettings
\*   emit         await this.setState(Head(todo), ...) of an update function
\* the settings argument of writeSettings with no field given
NoArg == [led |-> Undefined, pwr |-> Undefined, dist |-> Undefined]

\* phase tells the update function a fetch belongs to.  The other fields of a
\* connect task record what the activation has done so far; steps lists the
\* calls connectToDevice itself has made, in order.  probes and logins count
\* the GET / probes and the login POSTs the ensureAuth call of the task has
\* sent so far.
NewRun ==
    [kind |-> "connect", pc |-> "test", phase |-> "none", todo |-> <<>>,
     probe |-> "none", auth |-> "none", login |-> FALSE,
     emitTrue |-> FALSE, emitFalse |-> FALSE, threw |-> FALSE,
     steps |-> <<"testConnection">>, probes |-> 0, logins |-> 0,
     op |-> "none", ensured |-> "none", sent |-> 0,
     via |-> "none", arg |-> NoArg, dryRun |-> FALSE]

NewTick ==
    [kind |-> "tick", pc |-> "probe", phase |-> "status", todo |-> <<>>,
     probe |-> "none", auth |-> "none", login |-> FALSE,
     emitTrue |-> FALSE, emitFalse |-> FALSE, threw |-> FALSE,
     steps |-> <<>>, probes |-> 1, logins |-> 0,
     op |-> "none", ensured |-> "none", sent |-> 0,
     via |-> "none", arg |-> NoArg, dryRun |-> FALSE]

\* kind "cmd" is a call of a command method of the client.  op names the
\* method; a method that starts with ensureAuth is suspended at the probe,
\* one that does not has sent its request.  ensured is what the ensureAuth of
\* the task returned, sent counts the command requests the task has sent.
\* via tells who called the method: "event" is onStateChange, which goes on
\* after the method returned, "api" any other caller.  arg and dryRun are the
\* arguments of writeSettings and restart.
\*   send   await this.client.get("/push") / post("/settings") / post("/restart") / post("/led")
\*   ret    the method returns without a request (dry run)
\*   ack    await this.setState(Head(todo), { val: ..., ack: true })
EnsuringOps == {"openLid", "writeSettings", "restart"}

NewCmd(op, via, arg, dryRun) ==
    [kind |-> "cmd", pc |-> IF op \in EnsuringOps THEN "probe" ELSE "send",
     phase |-> "none", todo |-> <<>>,
     probe |-> "none", auth |-> "none", login |-> FALSE,
     emitTrue |-> FALSE, emitFalse |-> FALSE, threw |-> FALSE,
     steps |-> <<>>, probes |-> IF op \in EnsuringOps THEN 1 ELSE 0, logins |-> 0,
     op |-> op, ensured |-> "none", sent |-> IF op \in EnsuringOps THEN 0 ELSE 1,
     via |-> via, arg |-> arg, dryRun |-> dryRun,
     key |-> "none", val |-> Undefined, got |-> NoArg]

\* onStateChange for an unacknowledged change of the setting key to val,
\* about to read the three settings states
\*   read   await this.getStateAsync(StateName[Head(todo)])
NewSetting(key, val) ==
    [NewCmd("writeSettings", "event", NoArg, FALSE) EXCEPT
        !.pc = "read", !.probes = 0, !.todo = <<"led", "pwr", "dist">>,
        !.key = key, !.val = val]

\* the value onStateChange sends for field f after a change of key to val,
\* having read got: Number(state.val) for the changed one, else the state
\* read if its value is truthy, else the default
SentValue(f, key, val, got) ==
    IF f = key THEN val
    ELSE IF got[f] # Undefined /\ got[f] # 0 THEN got[f]
    ELSE DefaultSetting[f]

\* writeSettings as it would be with the dry run decided before ensureAuth
Proceed_DryFirst(t, ensured) ==
    IF t.kind = "cmd"
    THEN IF t.dryRun
         THEN [t EXCEPT !.pc = "ret", !.ensured = "none", !.probes = 0,
                        !.logins = 0]
         ELSE [t EXCEPT !.pc = "send", !.ensured = ensured, !.sent = @ + 1]
    ELSE [t EXCEPT !.pc = "get", !.ensured = ensured]

\* task t after its ensureAuth returned ensured: a fetch sends its GET /, a
\* command its request; a dry run returns
Proceed(t, ensured) ==
    IF t.kind = "cmd"
    THEN IF t.dryRun
         THEN [t EXCEPT !.pc = "ret", !.ensured = ensured]
         ELSE [t EXCEPT !.pc = "send", !.ensured = ensured, !.sent = @ + 1]
    ELSE [t EXCEPT !.pc = "get", !.ensured = ensured]

\* the GET /push requests task t sends when it goes on after ensureAuth
PushSent(t) == IF t.kind = "cmd" /\ t.op = "openLid" THEN 1 ELSE 0

InFlight == BagToSet(tasks)
Runs == {t \in InFlight : t.kind = "connect"}
Ticks == {t \in InFlight : t.kind = "tick"}
Cmds == {t \in InFlight : t.kind = "cmd"}
Count(kind) ==
    LET S == {t \in InFlight : t.kind = kind}
        sum[T \in SUBSET S] ==
            IF T = {} THEN 0
            ELSE LET x == CHOOSE y \in T : TRUE
                 IN CopiesIn(x, tasks) + sum[T \ {x}]
    IN sum[S]

Replace(t, t2) == (tasks (-) SetToBag({t})) (+) SetToBag({t2})
Remove(t) == tasks (-) SetToBag({t})

Min(S) == CHOOSE x \in S : \A y \in S : x <= y

\* what lastRun holds before any activation has finished
NoRun ==
    [probe |-> "none", auth |-> "none", login |-> FALSE, emitTrue |-> FALSE,
     emitFalse |-> FALSE, threw |-> FALSE, escaped |-> FALSE, polled |-> FALSE,
     connected |-> FALSE, timers |-> {}, steps |-> <<>>]

\* the record of a finished activation: what it did, whether an exception
\* left it, whether it called startPolling, the value of isConnected and the
\* reconnect timers armed when it finished
RunSummary(t, escaped, polled, conn, timers) ==
    [probe |-> t.probe, auth |-> t.auth, login |-> t.login,
     emitTrue |-> t.emitTrue, emitFalse |-> t.emitFalse, threw |-> t.threw,
     escaped |-> escaped, polled |-> polled, connected |-> conn,
     timers |-> timers,
     steps |-> IF polled THEN Append(t.steps, "startPolling") ELSE t.steps]

\* a task calls this.setState("info.connection", v): noted when onUnload has
\* already run
IssueConnection(v) ==
    /\ connIssued' = v
    /\ lateEmit' = (lateEmit \/ unload # "running")

\* a task calls this.setState for another state
IssueState ==
    /\ lateEmit' = (lateEmit \/ unload # "running")
    /\ UNCHANGED connIssued

\* the session of the client
Session == [authenticated |-> authenticated, sessionCookie |-> sessionCookie]

\* what lastCall holds before any call has returned
NoCall ==
    [op |-> "none", caller |-> "none",
     reply |-> [status |-> 0, location |-> "", cookie |-> "none"],
     ret |-> FALSE, ensured |-> "none",
     before |-> [authenticated |-> FALSE, sessionCookie |-> "none"],
     after |-> [authenticated |-> FALSE, sessionCookie |-> "none"]]

\* the record of an authenticate call: caller is "connectToDevice" or
\* "ensureAuth", a is what Authenticate gave for reply.  ensured is what
\* the ensureAuth that made the call returns: return this.authenticate()
AuthRecord(caller, reply, a) ==
    [op |-> "authenticate", caller |-> caller, reply |-> reply, ret |-> a.ret,
     ensured |-> IF caller # "ensureAuth" THEN "none"
                 ELSE IF a.ret THEN "true" ELSE "false",
     before |-> Session,
     after |-> [authenticated |-> a.authenticated,
                sessionCookie |-> a.sessionCookie]]

\* the record of a checkAuth call (always made by ensureAuth); c is what
\* CheckAuth gave for status.  ensured is what ensureAuth returns: true
\* when checkAuth returned true, otherwise it calls authenticate
ProbeRecord(status, c) ==
    [op |-> "checkAuth", caller |-> "ensureAuth",
     reply |-> [status |-> status, location |-> "", cookie |-> "none"],
     ret |-> c.ret,
     ensured |-> IF c.ret THEN "true" ELSE "login",
     before |-> Session,
     after |-> [authenticated |-> c.authenticated,
                sessionCookie |-> sessionCookie]]

\* what lastFetch holds before any GET / of a fetch was answered
NoFetch == [kind |-> "none", phase |-> "none", ok |-> FALSE, inputs |-> {},
            todo |-> <<>>, ret |-> "none"]

\* what unloadSnap holds before onUnload has run
NoSnap == [poll |-> {}, reconnect |-> {}, pollLeft |-> {}, reconnectLeft |-> {},
           issued |-> "none"]

\* ---------------------------------------------------------- commands
\* response.data of a reply: a string, or a value of another type (a body
\* axios parsed as JSON)
Bodies ==
    { [isString |-> TRUE,  chars |-> <<"O", "K">>],
      [isString |-> TRUE,  chars |-> <<" ", "O", "K", "\n">>],
      [isString |-> TRUE,  chars |-> <<"O", " ", "K">>],
      [isString |-> TRUE,  chars |-> <<"O", "K", "!">>],
      [isString |-> TRUE,  chars |-> <<"o", "k">>],
      [isString |-> TRUE,  chars |-> <<>>],
      [isString |-> FALSE, chars |-> <<>>] }

\* answers of the device to a command request; status 0 is "no response"
CmdStatuses == {0, 200, 204, 500}
StatusReplies ==
    {[status |-> s, body |-> [isString |-> TRUE, chars |-> <<"O", "K">>]] :
        s \in CmdStatuses}
CmdReplies == StatusReplies \cup {[status |-> 200, body |-> b] : b \in Bodies}

\* the default validateStatus of axios: status >= 200 && status < 300
DefaultResolves(status) == status # 0 /\ status >= 200 /\ status < 300

\* openLid as it would be if the body were compared without trim()
OpenLid_NoTrim(reply) ==
    IF ~DefaultResolves(reply.status) THEN FALSE
    ELSE LET data == IF reply.body.isString THEN reply.body.chars ELSE <<>>
         IN reply.status = 200 /\ data = <<"O", "K">>

\* HailoClient.openLid: what it returns when GET /push was answered with
\* reply; a rejected request ends in the catch block
OpenLid(reply) ==
    IF ~DefaultResolves(reply.status) THEN FALSE
    ELSE LET data == IF reply.body.isString THEN reply.body.chars ELSE <<>>
         IN reply.status = 200 /\ Trim(data) = <<"O", "K">>

\* writeSettings, restart, setLED: what they return when their POST was
\* answered with reply
PostResult(reply) == DefaultResolves(reply.status) /\ reply.status = 200

\* the state changes onStateChange may be given: a deleted state (null), or
\* a state with a value and an ack flag
StateEvents ==
    {[present |-> FALSE, name |-> "control.open", val |-> FALSE, ack |-> FALSE],
     [present |-> TRUE, name |-> "info.connection", val |-> TRUE, ack |-> FALSE]}
    \cup [present : {TRUE}, name : {"control.open"}, val : BOOLEAN, ack : BOOLEAN]

\* unacknowledged changes of the settings states
SettingEvents ==
    {[present |-> TRUE, name |-> StateName[e.key], val |-> e.val, ack |-> FALSE,
      key |-> e.key] :
        e \in {[key |-> "led", val |-> 0], [key |-> "led", val |-> 7],
               [key |-> "pwr", val |-> 3], [key |-> "dist", val |-> 30]}}

\* changes of the settings states onStateChange ignores: a deleted state
\* and acknowledged values, the adapter's own confirmations among them
IgnoredSettingEvents ==
    {[present |-> FALSE, name |-> StateName["led"], val |-> 0, ack |-> FALSE,
      key |-> "led"]}
    \cup {[ev EXCEPT !.ack = TRUE] : ev \in SettingEvents}

\* the record of an onStateChange call
EventRecord(ev) == [op |-> "onStateChange", ev |-> ev]

\* the settings arguments a caller may pass to writeSettings
SettingsArgs == [led : {Undefined, 0}, pwr : {Undefined, 3}, dist : {Undefined, 30}]

\* writeSettings with every given field appended, value or not
FormBody_All(arg) ==
    <<[name |-> "led", value |-> ToString(arg.led)],
      [name |-> "pwr", value |-> ToString(arg.pwr)],
      [name |-> "dist", value |-> ToString(arg.dist)]>>

\* writeSettings: the URLSearchParams it builds, a field for each of led,
\* pwr, dist that is not undefined, with String(value)
FormBody(arg) ==
    (IF arg.led # Undefined
     THEN <<[name |-> "led", value |-> ToString(arg.led)]>> ELSE <<>>)
    \o (IF arg.pwr # Undefined
        THEN <<[name |-> "pwr", value |-> ToString(arg.pwr)]>> ELSE <<>>)
    \o (IF arg.dist # Undefined
        THEN <<[name |-> "dist", value |-> ToString(arg.dist)]>> ELSE <<>>)

\* what a record holds for the reply of a method that sent no request
NoReply == [status |-> 0, body |-> [isString |-> FALSE, chars |-> <<>>]]

\* the record of a command method that returned ret after reply: its
\* arguments, the requests it sent (probe, login, command) and the form body
\* of a POST /settings
CmdRecord(t, reply, ret) ==
    [op |-> t.op, reply |-> reply, ret |-> ret, arg |-> t.arg,
     dryRun |-> t.dryRun, via |-> t.via, key |-> t.key, got |-> t.got, probes |-> t.probes, logins |-> t.logins,
     sent |-> t.sent,
     body |-> IF t.op = "writeSettings" /\ t.sent > 0 THEN FormBody(t.arg)
              ELSE <<>>]

\* ------------------------------------------------------------ timers
\* scheduleReconnect as it would be with the handle of the new timeout not
\* stored: this.setTimeout(...) instead of this.reconnectTimeout = this.setTimeout(...)
ScheduleReconnect_NotStored ==
    LET kept == IF reconnectTimeout # NoHandle
                THEN {tm \in reconnectTimers : tm.h # reconnectTimeout}
                ELSE reconnectTimers
        free == Handles \ ({tm.h : tm \in kept} \cup {reconnectTimeout})
    IN /\ free # {}
       /\ reconnectTimers' = kept \cup {[h |-> Min(free), delay |-> ReconnectDelay]}
       /\ UNCHANGED reconnectTimeout

\* scheduleReconnect: clear the stored timeout, arm a new one, store it.  The
\* new handle is an object of its own: it differs from every armed one and
\* from the stored one.
ScheduleReconnect ==
    LET kept == IF reconnectTimeout # NoHandle
                THEN {tm \in reconnectTimers : tm.h # reconnectTimeout}
                ELSE reconnectTimers
        free == Handles \ ({tm.h : tm \in kept} \cup {reconnectTimeout})
    IN /\ free # {}
       /\ reconnectTimers' = kept \cup {[h |-> Min(free), delay |-> ReconnectDelay]}
       /\ reconnectTimeout' = Min(free)

\* (this.config.pollInterval || 30) * 1000
PollPeriod ==
    (IF cfgPollInterval # 0 THEN cfgPollInterval ELSE DefaultPollSeconds) * 1000

\* startPolling: clear the stored interval, arm a new one, store it
StartPolling ==
    LET kept == IF pollInterval # NoHandle
                THEN {tm \in pollTimers : tm.h # pollInterval}
                ELSE pollTimers
        free == Handles \ ({tm.h : tm \in kept} \cup {pollInterval})
    IN /\ free # {}
       /\ pollTimers' = kept \cup {[h |-> Min(free), delay |-> PollPeriod]}
       /\ pollInterval' = Min(free)

\* -------------------------------------------------------------- Init
Init ==
    /\ cfgDeviceIp \in BOOLEAN
    /\ cfgPollInterval \in PollIntervalConfigs
    /\ ready = FALSE
    /\ isConnected = FALSE
    /\ pollInterval = NoHandle
    /\ reconnectTimeout = NoHandle
    /\ authenticated = FALSE
    /\ sessionCookie = "none"
    /\ pollTimers = {}
    /\ reconnectTimers = {}
    /\ tasks = EmptyBag
    /\ connection = "unset"
    /\ unload = "running"
    /\ callbackCalls = 0
    /\ connIssued = "none"
    /\ lateEmit = FALSE
    /\ unloadSnap = NoSnap
    /\ pollFailed = FALSE
    /\ lastCall = NoCall
    /\ lastFetch = NoFetch
    /\ lastRun = NoRun
    /\ triggers = 0
    /\ pushes = 0
    /\ stored = [f \in SettingKeys |-> NoState]

\* --------------------------------------------------- connectToDevice
\* onReady: without a device address it returns; otherwise it creates the
\* client and calls connectToDevice
OnReady ==
    /\ ~ready
    /\ unload = "running"
    /\ ready' = TRUE
    /\ tasks' = IF cfgDeviceIp THEN tasks (+) SetToBag({NewRun}) ELSE tasks
    /\ UNCHANGED <<cfgVars, cmdVars, isConnected, pollVars, reconnectVars, sessionVars,
                   connection, unloadVars, emitVars, pollFailed, lastFetch, lastCall, lastRun>>

\* testConnection has answered.  Reachable: authenticate is called (the
\* login POST is sent).  Unreachable: setState(info.connection, false).
TestConnectionDone(t, ok) ==
    /\ t \in Runs /\ t.pc = "test"
    /\ IF ok
       THEN /\ tasks' = Replace(t, [t EXCEPT !.pc = "auth", !.probe = "ok",
                                             !.login = TRUE,
                                             !.steps = Append(@, "authenticate")])
            /\ UNCHANGED emitVars
       ELSE /\ tasks' = Replace(t, [t EXCEPT !.pc = "emitUnreach",
                                             !.probe = "fail",
                                             !.emitFalse = TRUE])
            /\ IssueConnection("false")
    /\ UNCHANGED <<cfgVars, cmdVars, ready, isConnected, pollVars, reconnectVars,
                   sessionVars, connection, unloadVars, pollFailed, lastFetch, lastCall, lastRun>>

\* the setState of the unreachable branch has settled: scheduleReconnect and
\* return, or enter the catch block, which calls setState(false) again
EmitUnreachDone(t, outcome) ==
    /\ t \in Runs /\ t.pc = "emitUnreach"
    /\ IF outcome = "ok"
       THEN /\ connection' = "false"
            /\ ScheduleReconnect
            /\ tasks' = Remove(t)
            /\ lastRun' = RunSummary(t, FALSE, FALSE, isConnected, reconnectTimers')
            /\ UNCHANGED emitVars
       ELSE /\ tasks' = Replace(t, [t EXCEPT !.pc = "catchEmit", !.threw = TRUE])
            /\ IssueConnection("false")
            /\ UNCHANGED <<connection, reconnectVars, lastRun>>
    /\ UNCHANGED <<cfgVars, cmdVars, ready, isConnected, pollVars, sessionVars,
                   unloadVars, pollFailed, lastFetch, lastCall>>

\* connectToDevice as it would be if a failed authenticate were treated like
\* an unreachable device: setState(info.connection, false), scheduleReconnect,
\* return
AuthenticateDone_Fatal(t, reply) ==
    /\ t \in Runs /\ t.pc = "auth"
    /\ LET a == Authenticate(reply)
       IN /\ authenticated' = a.authenticated
          /\ lastCall' = AuthRecord("connectToDevice", reply, a)
          /\ sessionCookie' = a.sessionCookie
          /\ IF a.ret
             THEN /\ tasks' = Replace(t, [t EXCEPT !.pc = "emitConn", !.auth = "true",
                                                   !.emitTrue = TRUE,
                                                   !.steps = Append(@, "setState")])
                  /\ isConnected' = TRUE
                  /\ IssueConnection("true")
             ELSE /\ tasks' = Replace(t, [t EXCEPT !.pc = "emitUnreach",
                                                   !.auth = "false",
                                                   !.emitFalse = TRUE])
                  /\ UNCHANGED isConnected
                  /\ IssueConnection("false")
    /\ UNCHANGED <<cfgVars, cmdVars, ready, pollVars, reconnectVars, connection,
                   unloadVars, pollFailed, lastFetch, lastRun>>

\* authenticate has returned: whatever it returned, isConnected is set and
\* setState(info.connection, true) is called
AuthenticateDone(t, reply) ==
    /\ t \in Runs /\ t.pc = "auth"
    /\ LET a == Authenticate(reply)
       IN /\ authenticated' = a.authenticated
          /\ lastCall' = AuthRecord("connectToDevice", reply, a)
          /\ sessionCookie' = a.sessionCookie
          /\ tasks' = Replace(t, [t EXCEPT !.pc = "emitConn",
                                           !.auth = IF a.ret THEN "true" ELSE "false",
                                           !.emitTrue = TRUE,
                                           !.steps = Append(@, "setState")])
    /\ isConnected' = TRUE
    /\ IssueConnection("true")
    /\ UNCHANGED <<cfgVars, cmdVars, ready, pollVars, reconnectVars, connection,
                   unloadVars, pollFailed, lastFetch, lastRun>>

\* the setState(info.connection, true) has settled: updateDeviceInfo starts
\* (its ensureAuth sends the probe), or the catch block is entered
EmitConnDone(t, outcome) ==
    /\ t \in Runs /\ t.pc = "emitConn"
    /\ IF outcome = "ok"
       THEN /\ connection' = "true"
            /\ tasks' = Replace(t, [t EXCEPT !.pc = "probe", !.phase = "info",
                                             !.steps = Append(@, "updateDeviceInfo"),
                                             !.probes = 1, !.logins = 0,
                                             !.ensured = "none"])
            /\ UNCHANGED emitVars
       ELSE /\ tasks' = Replace(t, [t EXCEPT !.pc = "catchEmit", !.threw = TRUE,
                                             !.emitFalse = TRUE])
            /\ IssueConnection("false")
            /\ UNCHANGED connection
    /\ UNCHANGED <<cfgVars, cmdVars, ready, isConnected, pollVars, reconnectVars,
                   sessionVars, unloadVars, pollFailed, lastFetch, lastCall, lastRun>>

\* the setState of the catch block has settled: scheduleReconnect, or the
\* rejection leaves connectToDevice
CatchEmitDone(t, outcome) ==
    /\ t \in Runs /\ t.pc = "catchEmit"
    /\ tasks' = Remove(t)
    /\ IF outcome = "ok"
       THEN /\ connection' = "false"
            /\ ScheduleReconnect
            /\ lastRun' = RunSummary(t, FALSE, FALSE, isConnected, reconnectTimers')
       ELSE /\ lastRun' = RunSummary(t, TRUE, FALSE, isConnected, reconnectTimers)
            /\ UNCHANGED <<connection, reconnectVars>>
    /\ UNCHANGED <<cfgVars, cmdVars, ready, isConnected, pollVars, sessionVars,
                   unloadVars, emitVars, pollFailed, lastFetch, lastCall>>

\* ------------------------------------ updateDeviceInfo / updateDeviceStatus
\* connectToDevice as it would be with startPolling called before
\* updateDeviceStatus instead of after it
EndFetch_PollFirst(t) ==
    IF t.phase = "info"
    THEN /\ StartPolling
         /\ tasks' = Replace(t, [t EXCEPT !.pc = "probe", !.phase = "status",
                                          !.todo = <<>>,
                                          !.steps = @ \o <<"startPolling",
                                                           "updateDeviceStatus">>,
                                          !.probes = 1, !.logins = 0,
                                          !.ensured = "none"])
         /\ UNCHANGED lastRun
    ELSE IF t.kind = "tick"
    THEN /\ tasks' = Remove(t)
         /\ UNCHANGED <<pollVars, lastRun>>
    ELSE /\ tasks' = Remove(t)
         /\ lastRun' = [RunSummary(t, FALSE, TRUE, isConnected, reconnectTimers)
                           EXCEPT !.steps = t.steps]
         /\ UNCHANGED pollVars

\* the update function of task t is over.  After updateDeviceInfo,
\* connectToDevice calls updateDeviceStatus; after updateDeviceStatus it calls
\* startPolling and returns; a poll callback returns.
EndFetch(t) ==
    IF t.phase = "info"
    THEN /\ tasks' = Replace(t, [t EXCEPT !.pc = "probe", !.phase = "status",
                                          !.todo = <<>>,
                                          !.steps = Append(@, "updateDeviceStatus"),
                                          !.probes = 1, !.logins = 0,
                                          !.ensured = "none"])
         /\ UNCHANGED <<pollVars, lastRun>>
    ELSE IF t.kind = "tick"
    THEN /\ tasks' = Remove(t)
         /\ UNCHANGED <<pollVars, lastRun>>
    ELSE /\ StartPolling
         /\ tasks' = Remove(t)
         /\ lastRun' = RunSummary(t, FALSE, TRUE, isConnected, reconnectTimers)

\* ensureAuth: the probe of checkAuth has been answered; when checkAuth
\* returns false, authenticate is called (the login POST is sent), otherwise
\* ensureAuth returns true and the caller goes on to its request
CheckAuthDone(t, status) ==
    /\ t \in InFlight /\ t.pc = "probe"
    /\ LET c == CheckAuth(status)
       IN /\ authenticated' = c.authenticated
          /\ lastCall' = ProbeRecord(status, c)
          /\ tasks' = Replace(t, IF c.ret
                                 THEN Proceed(t, "true")
                                 ELSE [t EXCEPT !.pc = "login", !.login = TRUE,
                                                !.logins = @ + 1])
          /\ pushes' = IF c.ret THEN pushes + PushSent(t) ELSE pushes
    /\ UNCHANGED <<cfgVars, triggers, stored, ready, isConnected, pollVars, reconnectVars,
                   sessionCookie, connection, unloadVars, emitVars, pollFailed, lastFetch,
                   lastRun>>

\* ensureAuth: authenticate has returned and ensureAuth returns its result,
\* which the caller does not look at: it goes on to its request
LoginDone(t, reply) ==
    /\ t \in InFlight /\ t.pc = "login"
    /\ LET a == Authenticate(reply)
       IN /\ authenticated' = a.authenticated
          /\ lastCall' = AuthRecord("ensureAuth", reply, a)
          /\ sessionCookie' = a.sessionCookie
          /\ tasks' = Replace(t, Proceed(t, IF a.ret THEN "true" ELSE "false"))
    /\ pushes' = pushes + PushSent(t)
    /\ UNCHANGED <<cfgVars, triggers, stored, ready, isConnected, pollVars, reconnectVars,
                   connection, unloadVars, emitVars, pollFailed, lastFetch, lastRun>>

\* parseSettingsAndInfoFromHtml for each page GET / may deliver
Parsed == [p \in Pages \cup {NoPage} |-> ParseSettingsAndInfoFromHtml(p)]

\* how getDeviceInfo (phase "info") and readSettings end for an answer to
\* their GET /: readSettings parses inside its try block, getDeviceInfo
\* after it
FetchReturn(phase, result) ==
    IF ~result.ok THEN "null"
    ELSE IF Parsed[result.page].threw
         THEN IF phase = "info" THEN "throw" ELSE "null"
         ELSE "value"

\* getDeviceInfo / readSettings: the GET / has been answered, with a page or
\* with an error (they return null and the update function sets nothing; an
\* exception ends the update function in its catch block)
GetDone(t, result) ==
    /\ t \in InFlight /\ t.pc = "get"
    /\ LET ret == FetchReturn(t.phase, result)
           parsed == Parsed[result.page]
           todo == IF ret # "value" THEN <<>>
                   ELSE IF t.phase = "info" THEN InfoTodo(parsed)
                        ELSE StatusTodo(parsed)
       IN /\ lastFetch' = [kind |-> t.kind, phase |-> t.phase, ok |-> result.ok,
                           inputs |-> DOMAIN parsed.settings, todo |-> todo,
                           ret |-> ret]
          /\ IF todo # <<>>
             THEN /\ tasks' = Replace(t, [t EXCEPT !.pc = "emit", !.todo = todo])
                  /\ IssueState
                  /\ UNCHANGED <<pollVars, lastRun>>
             ELSE /\ EndFetch(t)
                  /\ UNCHANGED emitVars
    /\ pollFailed' = (pollFailed \/ (t.kind = "tick" /\ ~result.ok))
    /\ UNCHANGED <<cfgVars, cmdVars, ready, isConnected, reconnectVars, sessionVars,
                   connection, unloadVars, lastCall>>

\* a setState of an update function has settled: the next one is called, or
\* the function is over (a rejection ends it in its catch block)
EmitDone(t, outcome) ==
    /\ t \in InFlight /\ t.pc = "emit"
    /\ IF outcome = "ok" /\ Tail(t.todo) # <<>>
       THEN /\ tasks' = Replace(t, [t EXCEPT !.todo = Tail(t.todo)])
            /\ IssueState
            /\ UNCHANGED <<pollVars, lastRun>>
       ELSE /\ EndFetch(t)
            /\ UNCHANGED emitVars
    /\ UNCHANGED <<cfgVars, cmdVars, ready, isConnected, reconnectVars, sessionVars,
                   connection, unloadVars, pollFailed, lastFetch, lastCall>>

\* ------------------------------------------------------------ timers
\* the polling interval fires: its callback calls updateDeviceStatus when
\* isConnected, whatever earlier callbacks are doing
PollFire ==
    /\ \E tm \in pollTimers : TRUE
    /\ isConnected
    /\ Count("tick") < MaxTicks
    /\ tasks' = tasks (+) SetToBag({NewTick})
    /\ UNCHANGED <<cfgVars, cmdVars, ready, isConnected, pollVars, reconnectVars,
                   sessionVars, connection, unloadVars, emitVars, pollFailed, lastFetch, lastCall,
                   lastRun>>

\* the reconnect timer as it would be if armed with setInterval: it stays
\* armed when it fires
ReconnectFire_Repeats ==
    /\ Count("connect") < MaxRuns
    /\ reconnectTimers # {}
    /\ tasks' = tasks (+) SetToBag({NewRun})
    /\ pollFailed' = FALSE
    /\ UNCHANGED <<cfgVars, cmdVars, ready, isConnected, pollVars, reconnectVars,
                   sessionVars, connection, unloadVars, emitVars, lastFetch, lastCall,
                   lastRun>>

\* the reconnect timeout fires: its callback calls connectToDevice
ReconnectFire ==
    /\ Count("connect") < MaxRuns
    /\ \E tm \in reconnectTimers :
          reconnectTimers' = reconnectTimers \ {tm}
    /\ tasks' = tasks (+) SetToBag({NewRun})
    /\ pollFailed' = FALSE
    /\ UNCHANGED <<cfgVars, cmdVars, ready, isConnected, pollVars, reconnectTimeout,
                   sessionVars, connection, unloadVars, emitVars, lastFetch, lastCall,
                   lastRun>>

\* onUnload as it would be with the polling interval forgotten but not
\* cleared
OnUnload_IntervalNotCleared(outcome) ==
    /\ ready
    /\ unload = "running"
    /\ pollInterval' = NoHandle
    /\ UNCHANGED pollTimers
    /\ reconnectTimers' = {tm \in reconnectTimers : tm.h # reconnectTimeout}
    /\ reconnectTimeout' = NoHandle
    /\ connIssued' = "false"
    /\ unloadSnap' = [poll |-> pollTimers, reconnect |-> reconnectTimers,
                      pollLeft |-> pollTimers', reconnectLeft |-> reconnectTimers',
                      issued |-> connIssued']
    /\ IF outcome = "throw"
       THEN /\ unload' = "done_throw"
            /\ callbackCalls' = callbackCalls + 1
       ELSE /\ unload' = IF outcome = "ok" THEN "wait_ok" ELSE "wait_reject"
            /\ UNCHANGED callbackCalls
    /\ UNCHANGED <<cfgVars, cmdVars, ready, isConnected, sessionVars, tasks, connection,
                   lateEmit, pollFailed, lastFetch, lastCall, lastRun>>

\* the settling of onUnload's setState as it would be without the .catch
\* handler: a rejection invokes nothing
UnloadSettle_NoCatch ==
    /\ unload \in {"wait_ok", "wait_reject"}
    /\ unload' = IF unload = "wait_ok" THEN "done_ok" ELSE "done_reject"
    /\ connection' = IF unload = "wait_ok" THEN "false" ELSE connection
    /\ callbackCalls' = IF unload = "wait_ok" THEN callbackCalls + 1 ELSE callbackCalls
    /\ UNCHANGED <<cfgVars, cmdVars, ready, isConnected, pollVars, reconnectVars,
                   sessionVars, tasks, emitVars, unloadSnap, pollFailed, lastFetch, lastCall, lastRun>>

\* ------------------------------------------------------------ onUnload
\* onUnload: clear and forget both timers, call setState(info.connection,
\* false).  The call throws (the catch block invokes the callback), or it
\* returns a promise that resolves or rejects later.
OnUnload(outcome) ==
    /\ ready
    /\ unload = "running"
    /\ pollTimers' = {tm \in pollTimers : tm.h # pollInterval}
    /\ pollInterval' = NoHandle
    /\ reconnectTimers' = {tm \in reconnectTimers : tm.h # reconnectTimeout}
    /\ reconnectTimeout' = NoHandle
    /\ connIssued' = "false"
    /\ unloadSnap' = [poll |-> pollTimers, reconnect |-> reconnectTimers,
                      pollLeft |-> pollTimers', reconnectLeft |-> reconnectTimers',
                      issued |-> connIssued']
    /\ IF outcome = "throw"
       THEN /\ unload' = "done_throw"
            /\ callbackCalls' = callbackCalls + 1
       ELSE /\ unload' = IF outcome = "ok" THEN "wait_ok" ELSE "wait_reject"
            /\ UNCHANGED callbackCalls
    /\ UNCHANGED <<cfgVars, cmdVars, ready, isConnected, sessionVars, tasks, connection,
                   lateEmit, pollFailed, lastFetch, lastCall, lastRun>>

\* the promise of onUnload's setState settles: .then or .catch invokes the
\* callback
UnloadSettle ==
    /\ unload \in {"wait_ok", "wait_reject"}
    /\ unload' = IF unload = "wait_ok" THEN "done_ok" ELSE "done_reject"
    /\ connection' = IF unload = "wait_ok" THEN "false" ELSE connection
    /\ callbackCalls' = callbackCalls + 1
    /\ UNCHANGED <<cfgVars, cmdVars, ready, isConnected, pollVars, reconnectVars,
                   sessionVars, tasks, emitVars, unloadSnap, pollFailed, lastFetch, lastCall, lastRun>>

\* ------------------------------------------------------- onStateChange
\* onStateChange as it would be without the test of state.ack
OnStateChange_NoAckTest(ev) ==
    /\ ready /\ cfgDeviceIp
    /\ lastCall' = EventRecord(ev)
    /\ IF ev.present /\ ev.name = "control.open" /\ ev.val
       THEN /\ Count("cmd") < MaxCmds
            /\ triggers < MaxTriggers
            /\ triggers' = IF ev.ack THEN triggers ELSE triggers + 1
            /\ tasks' = tasks (+) SetToBag({NewCmd("openLid", "event", NoArg, FALSE)})
       ELSE UNCHANGED <<triggers, tasks>>
    /\ UNCHANGED <<cfgVars, ready, isConnected, pollVars, reconnectVars,
                   sessionVars, connection, unloadVars, emitVars, pollFailed,
                   lastFetch, lastRun, pushes, stored>>

\* onStateChange as it would be without the test of state.ack
OnStateChange_AckIgnored(ev) ==
    /\ ready /\ cfgDeviceIp
    /\ lastCall' = EventRecord(ev)
    /\ IF ev.present /\ ev.name = "control.open" /\ ev.val
       THEN /\ Count("cmd") < MaxCmds
            /\ triggers < MaxTriggers
            /\ triggers' = triggers + 1
            /\ tasks' = tasks (+) SetToBag({NewCmd("openLid", "event", NoArg, FALSE)})
            /\ UNCHANGED stored
       ELSE IF ev.present /\ ev.name \in {StateName[f] : f \in SettingKeys}
       THEN /\ Count("cmd") < MaxCmds
            /\ triggers < MaxTriggers
            /\ triggers' = triggers + 1
            /\ stored' = [stored EXCEPT ![ev.key] = [val |-> ev.val, ack |-> ev.ack]]
            /\ tasks' = tasks (+) SetToBag({NewSetting(ev.key, ev.val)})
       ELSE UNCHANGED <<triggers, stored, tasks>>
    /\ UNCHANGED <<cfgVars, ready, isConnected, pollVars, reconnectVars,
                   sessionVars, connection, unloadVars, emitVars, pollFailed,
                   lastFetch, lastRun, pushes>>

\* onStateChange: a deleted or acknowledged state is ignored; an
\* unacknowledged control.open with a true value calls openLid (its
\* ensureAuth sends the probe); an unacknowledged change of a setting
\* starts the reading of the three settings states; every other change
\* does nothing
OnStateChange(ev) ==
    /\ ready /\ cfgDeviceIp
    /\ lastCall' = EventRecord(ev)
    /\ IF ev.present /\ ~ev.ack /\ ev.name = "control.open" /\ ev.val
       THEN /\ Count("cmd") < MaxCmds
            /\ triggers < MaxTriggers
            /\ triggers' = triggers + 1
            /\ tasks' = tasks (+) SetToBag({NewCmd("openLid", "event", NoArg, FALSE)})
            /\ UNCHANGED stored
       ELSE IF ev.present /\ ~ev.ack /\ ev.name \in {StateName[f] : f \in SettingKeys}
       THEN \* the host has stored the change it reports
            /\ Count("cmd") < MaxCmds
            /\ triggers < MaxTriggers
            /\ triggers' = triggers + 1
            /\ stored' = [stored EXCEPT ![ev.key] = [val |-> ev.val, ack |-> FALSE]]
            /\ tasks' = tasks (+) SetToBag({NewSetting(ev.key, ev.val)})
       ELSE UNCHANGED <<triggers, stored, tasks>>
    /\ UNCHANGED <<cfgVars, ready, isConnected, pollVars, reconnectVars,
                   sessionVars, connection, unloadVars, emitVars, pollFailed,
                   lastFetch, lastRun, pushes>>

\* a getStateAsync of onStateChange has settled: the next state is read,
\* or, after the third, writeSettings is called with the three values (its
\* ensureAuth sends the probe); a rejection ends the handler in its catch block
ReadDone(t, outcome) ==
    /\ t \in Cmds /\ t.pc = "read"
    /\ LET got == [t.got EXCEPT ![Head(t.todo)] = stored[Head(t.todo)].val]
       IN tasks' =
            IF outcome # "ok" THEN Remove(t)
            ELSE IF Tail(t.todo) # <<>>
            THEN Replace(t, [t EXCEPT !.got = got, !.todo = Tail(t.todo)])
            ELSE Replace(t, [t EXCEPT
                    !.got = got, !.todo = <<>>, !.pc = "probe", !.probes = 1,
                    !.arg = [f \in SettingKeys |-> SentValue(f, t.key, t.val, got)]])
    /\ UNCHANGED <<cfgVars, cmdVars, ready, isConnected, pollVars, reconnectVars,
                   sessionVars, connection, unloadVars, emitVars, pollFailed,
                   lastCall, lastFetch, lastRun>>

\* a command method of the client is called: writeSettings(arg, dryRun) and
\* restart(dryRun) start with ensureAuth, setLED sends its POST at once
ClientCall(op, arg, dryRun) ==
    /\ ready /\ cfgDeviceIp
    /\ Count("cmd") < MaxCmds
    /\ Cardinality({t \in Cmds : t.via = "api"}) < MaxCalls
    /\ op # "writeSettings" => arg = NoArg
    /\ op = "setLED" => ~dryRun
    /\ tasks' = tasks (+) SetToBag({NewCmd(op, "api", arg, dryRun)})
    /\ UNCHANGED <<cfgVars, cmdVars, ready, isConnected, pollVars, reconnectVars,
                   sessionVars, connection, unloadVars, emitVars, pollFailed,
                   lastCall, lastFetch, lastRun>>

\* the request of a command has been answered and the method returns.  After
\* an openLid that returned true, onStateChange calls
\* setState("control.open", { val: false, ack: true }); otherwise it is over.
CmdDone(t, reply) ==
    /\ t \in Cmds /\ t.pc = "send"
    /\ t.op # "openLid" => reply \in StatusReplies
    /\ LET ret == IF t.op = "openLid" THEN OpenLid(reply) ELSE PostResult(reply)
       IN /\ lastCall' = CmdRecord(t, reply, ret)
          /\ IF t.via = "event" /\ ret
             THEN /\ tasks' = Replace(t, [t EXCEPT
                                 !.pc = "ack",
                                 !.todo = IF t.op = "openLid" THEN <<"control.open">>
                                          ELSE <<"led", "pwr", "dist">>])
                  /\ IssueState
             ELSE /\ tasks' = Remove(t)
                  /\ UNCHANGED emitVars
    /\ UNCHANGED <<cfgVars, ready, isConnected, pollVars, reconnectVars,
                   sessionVars, connection, unloadVars, pollFailed, lastFetch,
                   lastRun, cmdVars>>

\* a dry run returns true; no request is sent for the command
DryReturn(t) ==
    /\ t \in Cmds /\ t.pc = "ret"
    /\ lastCall' = CmdRecord(t, NoReply, TRUE)
    /\ tasks' = Remove(t)
    /\ UNCHANGED <<cfgVars, cmdVars, ready, isConnected, pollVars, reconnectVars,
                   sessionVars, connection, unloadVars, emitVars, pollFailed,
                   lastFetch, lastRun>>

\* the setState that resets control.open has settled (a rejection is caught
\* and logged): onStateChange is over
AckDone(t, outcome) ==
    /\ t \in Cmds /\ t.pc = "ack"
    /\ outcome \in EmitOutcomes
    /\ stored' = IF outcome = "ok" /\ Head(t.todo) \in SettingKeys
                 THEN [stored EXCEPT ![Head(t.todo)] =
                          [val |-> t.arg[Head(t.todo)], ack |-> TRUE]]
                 ELSE stored
    /\ IF outcome = "ok" /\ Tail(t.todo) # <<>>
       THEN /\ tasks' = Replace(t, [t EXCEPT !.todo = Tail(t.todo)])
            /\ IssueState
       ELSE /\ tasks' = Remove(t)
            /\ UNCHANGED emitVars
    /\ UNCHANGED <<cfgVars, triggers, pushes, ready, isConnected, pollVars,
                   reconnectVars, sessionVars, connection, unloadVars, pollFailed,
                   lastCall, lastFetch, lastRun>>

\* ---------------------------------------------------------------- Next
Next ==
    \/ OnReady
    \/ \E t \in InFlight, ok \in BOOLEAN : TestConnectionDone(t, ok)
    \/ \E t \in InFlight, o \in EmitOutcomes : EmitUnreachDone(t, o)
    \/ \E t \in InFlight, r \in LoginReplies : AuthenticateDone(t, r)
    \/ \E t \in InFlight, o \in EmitOutcomes : EmitConnDone(t, o)
    \/ \E t \in InFlight, o \in EmitOutcomes : CatchEmitDone(t, o)
    \/ \E t \in InFlight, s \in ProbeStatuses : CheckAuthDone(t, s)
    \/ \E t \in InFlight, r \in LoginReplies : LoginDone(t, r)
    \/ \E t \in InFlight, g \in GetResults : GetDone(t, g)
    \/ \E t \in InFlight, o \in EmitOutcomes : EmitDone(t, o)
    \/ PollFire
    \/ ReconnectFire
    \/ \E o \in {"ok", "reject", "throw"} : OnUnload(o)
    \/ UnloadSettle

Spec == Init /\ [][Next]_vars

\* every step but the shutdown of the adapter, which nothing forces: an
\* awaited request or setState settles (every request carries a timeout), an
\* armed timer fires
Progress ==
    \/ OnReady
    \/ \E t \in InFlight, ok \in BOOLEAN : TestConnectionDone(t, ok)
    \/ \E t \in InFlight, o \in EmitOutcomes : EmitUnreachDone(t, o)
    \/ \E t \in InFlight, r \in LoginReplies : AuthenticateDone(t, r)
    \/ \E t \in InFlight, o \in EmitOutcomes : EmitConnDone(t, o)
    \/ \E t \in InFlight, o \in EmitOutcomes : CatchEmitDone(t, o)
    \/ \E t \in InFlight, s \in ProbeStatuses : CheckAuthDone(t, s)
    \/ \E t \in InFlight, r \in LoginReplies : LoginDone(t, r)
    \/ \E t \in InFlight, g \in GetResults : GetDone(t, g)
    \/ \E t \in InFlight, o \in EmitOutcomes : EmitDone(t, o)
    \/ PollFire
    \/ ReconnectFire
    \/ UnloadSettle

FairSpec == Spec /\ WF_vars(Progress)

\* the adapter as its commands see it: onStateChange and the command methods
\* of the client, with the session they share.  The connectToDevice
\* activation onReady started is awaiting its first answer throughout.
CmdNext ==
    \/ OnReady
    \/ \E ev \in StateEvents : OnStateChange(ev)
    \/ \E op \in {"writeSettings", "restart", "setLED"} :
          ClientCall(op, NoArg, FALSE)
    \/ \E t \in InFlight, s \in ProbeStatuses : CheckAuthDone(t, s)
    \/ \E t \in InFlight, r \in LoginReplies : LoginDone(t, r)
    \/ \E t \in InFlight, r \in CmdReplies : CmdDone(t, r)
    \/ \E t \in InFlight, o \in EmitOutcomes : AckDone(t, o)

\* the polling period plays no part in it
CmdInit == Init /\ cfgPollInterval = 0

CmdSpec == CmdInit /\ [][CmdNext]_vars

\* WriteSpec: writeSettings and restart called with every
\* settings argument, as a dry run or not, with the session they share.
WriteNext ==
    \/ OnReady
    \/ \E op \in {"writeSettings", "restart"}, arg \in SettingsArgs,
          dryRun \in BOOLEAN : ClientCall(op, arg, dryRun)
    \/ \E t \in InFlight, s \in ProbeStatuses : CheckAuthDone(t, s)
    \/ \E t \in InFlight, r \in LoginReplies : LoginDone(t, r)
    \/ \E t \in InFlight, r \in StatusReplies : CmdDone(t, r)
    \/ \E t \in InFlight : DryReturn(t)

WriteSpec == CmdInit /\ [][WriteNext]_vars

\* SettingsSpec: onStateChange for changes of
\* the three settings, with the session of the client.
SettingsNext ==
    \/ OnReady
    \/ \E ev \in SettingEvents : OnStateChange(ev)
    \/ \E t \in InFlight, o \in EmitOutcomes : ReadDone(t, o)
    \/ \E t \in InFlight, s \in ProbeStatuses : CheckAuthDone(t, s)
    \/ \E t \in InFlight, r \in LoginReplies : LoginDone(t, r)
    \/ \E t \in InFlight, r \in StatusReplies : CmdDone(t, r)
    \/ \E t \in InFlight, o \in EmitOutcomes : AckDone(t, o)

SettingsSpec == CmdInit /\ [][SettingsNext]_vars

\* EventSpec: onStateChange for deleted, acknowledged and unacknowledged
\* changes of control.open and of settings.ledBrightness; the acknowledged
\* ones include the values the handler itself emits after a command.
EventNext ==
    \/ OnReady
    \/ \E ev \in StateEvents \cup {x \in SettingEvents \cup IgnoredSettingEvents :
                                      (x.key = "led" /\ x.val = 7) \/ ~x.present} :
          OnStateChange(ev)
    \/ \E t \in InFlight, o \in EmitOutcomes : ReadDone(t, o)
    \/ \E t \in InFlight, s \in ProbeStatuses : CheckAuthDone(t, s)
    \/ \E t \in InFlight, r \in LoginReplies : LoginDone(t, r)
    \/ \E t \in InFlight, r \in CmdReplies : CmdDone(t, r)
    \/ \E t \in InFlight, o \in EmitOutcomes : AckDone(t, o)

EventSpec == CmdInit /\ [][EventNext]_vars

\* parseSettingsAndInfoFromHtml is applied to a page; it reads and writes
\* nothing but its argument, so one application in a behaviour is all there
\* is to see
Extract(page) ==
    /\ lastCall = NoCall
    /\ page.para \/ page.spans = <<>>
    /\ LET parsed == ParseSettingsAndInfoFromHtml(page)
       IN lastCall' = [op |-> "parseSettingsAndInfoFromHtml", page |-> page,
                       threw |-> parsed.threw, settings |-> parsed.settings,
                       info |-> parsed.info]
    /\ UNCHANGED <<cfgVars, cmdVars, ready, isConnected, pollVars, reconnectVars,
                   sessionVars, tasks, connection, unloadVars, emitVars, pollFailed,
                   lastFetch, lastRun>>

\* ParseSpec: the extraction applied to pages.
ParseNext == \E page \in ParsePages : Extract(page)

ParseSpec == CmdInit /\ [][ParseNext]_vars

\* ------------------------------------------------------------ onMessage
\* messages of the message box: the command, the payload (none: obj.message
\* is not truthy; empty: an object without ip; ip: an object with ip), and
\* whether the sender gave a callback
Messages ==
    [command : {"testConnection", "unknown"}, payload : {"none", "empty", "ip"},
     callback : BOOLEAN]

\* a run of onMessage awaiting testClient.testConnection()
NewTest(msg) == [kind |-> "msg", pc |-> "test", msg |-> msg]

\* the record of a run of onMessage: the sendTo calls it made, the requests
\* its temporary client sent, the success property of what it sent, and
\* whether the run is over
MessageRecord(msg, replies, requests, success, over) ==
    [op |-> "onMessage", msg |-> msg, replies |-> replies, requests |-> requests,
     success |-> success, over |-> over]

\* onMessage(obj), up to the await of testConnection or to its end
OnMessage(msg) ==
    /\ IF msg.payload = "none"
       THEN /\ lastCall' = MessageRecord(msg, 0, 0, "none", TRUE)
            /\ UNCHANGED tasks
       ELSE IF msg.command # "testConnection"
       THEN /\ lastCall' = MessageRecord(msg, IF msg.callback THEN 1 ELSE 0, 0,
                                          "none", TRUE)
            /\ UNCHANGED tasks
       ELSE IF msg.payload = "empty"
       THEN /\ lastCall' = MessageRecord(msg, 1, 0, "none", TRUE)
            /\ UNCHANGED tasks
       ELSE /\ Count("msg") < MaxCalls
            /\ lastCall' = MessageRecord(msg, 0, 1, "none", FALSE)
            /\ tasks' = tasks (+) SetToBag({NewTest(msg)})
    /\ UNCHANGED <<cfgVars, cmdVars, ready, isConnected, pollVars, reconnectVars,
                   sessionVars, connection, unloadVars, emitVars, pollFailed,
                   lastFetch, lastRun>>

\* testClient.testConnection() has returned: one sendTo, by result.success
TestDone(t, ok) ==
    /\ t \in InFlight /\ t.kind = "msg" /\ t.pc = "test"
    /\ lastCall' = MessageRecord(t.msg, 1, 1, IF ok THEN "true" ELSE "false", TRUE)
    /\ tasks' = Remove(t)
    /\ UNCHANGED <<cfgVars, cmdVars, ready, isConnected, pollVars, reconnectVars,
                   sessionVars, connection, unloadVars, emitVars, pollFailed,
                   lastFetch, lastRun>>

\* MessageSpec: the message box, beside the connectToDevice
\* activation onReady started and the client calls of other callers.
MessageNext ==
    \/ OnReady
    \/ \E msg \in Messages : OnMessage(msg)
    \/ \E t \in InFlight, ok \in BOOLEAN : TestDone(t, ok)
    \/ \E t \in InFlight, ok \in BOOLEAN : TestConnectionDone(t, ok)
    \/ \E t \in InFlight, o \in EmitOutcomes : EmitUnreachDone(t, o)
    \/ \E t \in InFlight, r \in LoginReplies : AuthenticateDone(t, r)

MessageSpec == CmdInit /\ [][MessageNext]_vars

\* ------------------------------------------------------------- claims
OneRetryTimer(timers) ==
    /\ Cardinality(timers) = 1
    /\ \A tm \in timers : tm.delay = ReconnectDelay

\* C1: poll ticks never overlap: at most one poll callback is suspended in
\* its settings fetch in every reachable state.
C1_NoOverlappingPolls == Count("tick") <= 1

\* C2: once onUnload has run, a task that was awaiting the device discards
\* its late result: no setState is issued, and no polling or reconnect timer
\* is armed.
C2_LateResultsDiscarded ==
    unload # "running" =>
        /\ ~lateEmit
        /\ pollTimers = {}
        /\ reconnectTimers = {}

\* C3: at most one reconnect timer is armed in every reachable state, and it
\* is the one whose handle is stored in reconnectTimeout, so the next
\* scheduleReconnect (or onUnload) cancels it.
C3_OneReconnectTimer ==
    /\ Cardinality(reconnectTimers) <= 1
    /\ \A tm \in reconnectTimers : tm.h = reconnectTimeout

\* C3 witness: a reconnect timer is armed after at least two failed attempts
\* (its handle is the second one handed out).
C3_Witness ==
    /\ lastRun.probe = "fail"
    /\ reconnectTimers = {[h |-> 2, delay |-> ReconnectDelay]}
    /\ reconnectTimeout = 2

\* C4: an activation of connectToDevice whose reachability probe failed has,
\* when it finishes, called setState(info.connection, false), armed exactly
\* one reconnect timer of 60 s and returned, without a login request, without
\* setState(info.connection, true) and without startPolling.
C4_UnreachableSchedulesOneRetry ==
    lastRun.probe = "fail" =>
        /\ lastRun.emitFalse
        /\ OneRetryTimer(lastRun.timers)
        /\ ~lastRun.escaped
        /\ ~lastRun.login
        /\ ~lastRun.emitTrue
        /\ ~lastRun.polled

\* C5: while the adapter runs and the last connection attempt failed, the
\* next attempt is either in progress or scheduled by exactly one reconnect
\* timer of the fixed 60 s delay, so attempts continue until one succeeds.
C5_RetryEveryWindow ==
    (ready /\ cfgDeviceIp /\ unload = "running" /\ Runs = {} /\ ~lastRun.polled)
        => OneRetryTimer(reconnectTimers)

\* C6: an activation of connectToDevice in which a step raised an error
\* finishes in Reconnecting: setState(info.connection, false) was called, one
\* reconnect timer of 60 s is armed, and no exception left connectToDevice.
C6_ErrorEndsInReconnecting ==
    lastRun.threw =>
        /\ lastRun.emitFalse
        /\ OneRetryTimer(lastRun.timers)
        /\ ~lastRun.escaped

\* C7: when a poll fetch fails with a network error while the adapter runs,
\* connection=false is eventually emitted and a reconnect attempt is
\* scheduled or in progress.
C7_PollFailureReconnects ==
    (pollFailed /\ unload = "running")
        ~> (\/ unload # "running"
            \/ (connection = "false" /\ (reconnectTimers # {} \/ Runs # {})))

\* C8: when onUnload returns, no polling timer and no reconnect timer that was
\* armed when it was called is left, and setState(info.connection, false) is
\* the call it issued.
C8_UnloadCancelsTimers ==
    unload # "running" =>
        /\ unloadSnap.pollLeft = {}
        /\ unloadSnap.reconnectLeft = {}
        /\ unloadSnap.issued = "false"

\* C8 witness: onUnload ran while a polling timer was armed.
C8_Witness ==
    /\ unload # "running"
    /\ unloadSnap.poll # {}

\* C9: onUnload invokes its callback exactly once in every outcome of its
\* final setState: once the call has thrown, or its promise has resolved or
\* rejected, the callback has been invoked, and never before.
C9_CallbackAlwaysInvoked ==
    /\ unload \in {"done_ok", "done_reject", "done_throw"} => callbackCalls = 1
    /\ unload \in {"running", "wait_ok", "wait_reject"} => callbackCalls = 0

\* C9 witness: the promise of the final setState rejected and the callback
\* was invoked.
C9_Witness ==
    /\ unload = "done_reject"
    /\ callbackCalls = 1

\* C10: a failed authentication is not fatal: once authenticate has returned,
\* whatever it returned, isConnected is set and setState(info.connection,
\* true) has been called; an activation whose probe succeeded and in which
\* nothing threw ends connected, polling, with no reconnect timer armed.
C10_AuthFailureNonFatal ==
    /\ \A t \in Runs : t.auth # "none" => (t.emitTrue /\ isConnected)
    /\ (lastRun.probe = "ok" /\ ~lastRun.threw) =>
           /\ lastRun.auth # "none"
           /\ lastRun.emitTrue
           /\ lastRun.connected
           /\ lastRun.polled
           /\ lastRun.timers = {}

\* C10 witness: an activation in which authenticate returned false finished
\* connected and polling.
C10_Witness ==
    /\ lastRun.probe = "ok"
    /\ lastRun.auth = "false"
    /\ lastRun.polled
    /\ connection = "true"
    /\ pollTimers # {}

\* the calls of a connectToDevice activation that connects, in order
ConnectSteps ==
    <<"testConnection", "authenticate", "setState", "updateDeviceInfo",
      "updateDeviceStatus", "startPolling">>

\* C11: a connectToDevice activation makes its calls in the order
\* reachability probe, authenticate, setState(info.connection, true),
\* updateDeviceInfo, updateDeviceStatus, startPolling, each at most once and
\* none skipped; an activation that started polling made each of them exactly
\* once, so the timer is armed only after both fetches are over.
C11_ConnectOrder ==
    /\ \A t \in Runs :
          /\ Len(t.steps) < Len(ConnectSteps)
          /\ t.steps = SubSeq(ConnectSteps, 1, Len(t.steps))
    /\ lastRun.polled => lastRun.steps = ConnectSteps
    /\ pollTimers # {} => lastRun.steps = ConnectSteps

\* C11 witness: an activation has made all six calls and returned, and the
\* polling timer it started is armed.
C11_Witness ==
    /\ lastRun.steps = ConnectSteps
    /\ Cardinality(pollTimers) = 1
    /\ Runs = {}

\* C12: a poll callback whose readSettings got a page that carries the led,
\* dist and pwr inputs goes on to set settings.ledBrightness,
\* settings.distance and settings.ejectionForce (acknowledged).
C12_PollReemitsSettings ==
    (lastFetch.kind = "tick" /\ lastFetch.ok
        /\ {"led", "dist", "pwr"} \subseteq lastFetch.inputs)
    => lastFetch.todo = <<"settings.ledBrightness", "settings.distance",
                          "settings.ejectionForce">>

\* C13: every armed polling timer has a period between 5 s and 300 s, and of
\* 30 s when pollInterval is not configured.
C13_PollPeriodInBounds ==
    \A tm \in pollTimers :
        /\ tm.delay >= 5 * 1000
        /\ tm.delay <= 300 * 1000
        /\ cfgPollInterval = 0 => tm.delay = 30 * 1000

\* the device accepted the login: 301 to "/" with a session cookie
Accepted(reply) ==
    reply.status = 301 /\ reply.location = "/" /\ reply.cookie # "none"

\* C14: authenticate returns true, marks the session authenticated and caches
\* the cookie when the login POST is answered with 200 carrying a cookie or
\* with 301 to "/" carrying a cookie, and returns false for every status
\* other than 200 and 301; an ensureAuth whose probe answers 200 returns true
\* without a login request.
C14_LoginSucceeds ==
    /\ lastCall.op = "authenticate" =>
          /\ ((lastCall.reply.status = 200 /\ lastCall.reply.cookie # "none")
                 \/ Accepted(lastCall.reply))
              => /\ lastCall.ret
                 /\ lastCall.after.authenticated
                 /\ lastCall.after.sessionCookie = lastCall.reply.cookie
          /\ lastCall.reply.status \notin {200, 301} => ~lastCall.ret
    /\ (lastCall.op = "checkAuth" /\ lastCall.reply.status = 200)
          => lastCall.ensured = "true"

\* C15: when authenticate has returned false the session is unauthenticated
\* and holds no cookie; when the device accepted the login, the cookie it sent
\* is the one the session holds.
C15_CookieFollowsLogin ==
    lastCall.op = "authenticate" =>
        /\ ~lastCall.ret => /\ ~lastCall.after.authenticated
                            /\ lastCall.after.sessionCookie = "none"
        /\ Accepted(lastCall.reply)
             => lastCall.after.sessionCookie = lastCall.reply.cookie

\* C16: an ensureAuth call sends exactly one probe; it sends a login request,
\* exactly one, if and only if the probe was not answered with 200; it
\* returns true when the probe was answered with 200 and what authenticate
\* returned otherwise.
C16_EnsureAuthTraffic ==
    /\ \A t \in InFlight :
          /\ t.pc = "probe" => (t.probes = 1 /\ t.logins = 0)
          /\ t.pc = "login" => (t.probes = 1 /\ t.logins = 1)
          /\ t.pc \in {"get", "emit"} => (t.probes = 1 /\ t.logins \in {0, 1})
    /\ lastCall.op = "checkAuth" =>
          /\ lastCall.reply.status = 200 => lastCall.ensured = "true"
          /\ lastCall.reply.status # 200 => lastCall.ensured = "login"
    /\ (lastCall.op = "authenticate" /\ lastCall.caller = "ensureAuth") =>
          lastCall.ensured = (IF lastCall.ret THEN "true" ELSE "false")

\* C16 witness: the probe of an ensureAuth call was answered with a redirect
\* and the call has sent its login request.
C16_Witness ==
    /\ lastCall.op = "checkAuth"
    /\ lastCall.reply.status = 301
    /\ \E t \in InFlight : t.pc = "login" /\ t.logins = 1

C18_EnsureAuthBeforeCommand ==
    \A t \in Cmds :
        /\ t.sent > 0 => (t.probes = 1 /\ t.ensured \in {"true", "false"})
        /\ t.ensured = "false" => t.sent = 1

\* C19: the lid is actuated at most once per trigger: no more GET /push
\* requests have been sent than unacknowledged control.open = true changes
\* were given to onStateChange, and no call sends its request twice.
C19_OnePushPerTrigger ==
    /\ pushes <= triggers
    /\ \A t \in Cmds : t.sent <= 1

\* C19 witness: after two triggers whose GET /push were sent, an acknowledged
\* control.open = false was given to onStateChange and nothing is in progress.
C19_Witness ==
    /\ lastCall.op = "onStateChange"
    /\ lastCall.ev.present /\ lastCall.ev.ack /\ ~lastCall.ev.val
    /\ lastCall.ev.name = "control.open"
    /\ triggers = 2
    /\ pushes = 2
    /\ Cmds = {}

\* the characters of a body are "OK" with whitespace before and after
OkBody(chars) ==
    \E i \in 1..Len(chars) :
        /\ i < Len(chars)
        /\ chars[i] = "O"
        /\ chars[i + 1] = "K"
        /\ \A j \in 1..Len(chars) : j \notin {i, i + 1} => chars[j] \in Whitespace

\* C20: openLid returns true exactly when GET /push was answered with status
\* 200 and a string body that is "OK" once trimmed; every other body or
\* status, a body that is not a string and a network error make it return
\* false.
C20_OpenLidResult ==
    lastCall.op = "openLid" =>
        (lastCall.ret <=> /\ lastCall.reply.status = 200
                          /\ lastCall.reply.body.isString
                          /\ OkBody(lastCall.reply.body.chars))

\* C20 witness: openLid returned true for a body with whitespace around "OK".
C20_Witness ==
    /\ lastCall.op = "openLid"
    /\ lastCall.ret
    /\ lastCall.reply.body.chars = <<" ", "O", "K", "\n">>

\* C30: isConnected agrees with the value of the last
\* setState(info.connection) call: once false was emitted, by a failed
\* attempt, by the catch block of connectToDevice or by onUnload, isConnected
\* is false, and once true was emitted it is true.
C30_FlagAgreesWithEmitted ==
    /\ connIssued = "false" => ~isConnected
    /\ connIssued = "true" => isConnected

\* C21: a writeSettings called with dryRun = true returns true and has sent
\* no request to the device: no probe, no login request, no POST /settings.
C21_DryRunNoTraffic ==
    (lastCall.op = "writeSettings" /\ lastCall.dryRun) =>
        /\ lastCall.ret
        /\ lastCall.probes + lastCall.logins + lastCall.sent = 0

\* the names of the fields argument arg gives
Given(arg) ==
    {n \in {"led", "pwr", "dist"} :
        (n = "led" /\ arg.led # Undefined) \/ (n = "pwr" /\ arg.pwr # Undefined)
        \/ (n = "dist" /\ arg.dist # Undefined)}

\* C22: a writeSettings that is not a dry run has sent exactly one POST
\* /settings; its form body has one field for each of led, pwr, dist that was
\* given, none for one that was not, each with the value given; it returns
\* true exactly when the status of the response is 200.
C22_SettingsFormBody ==
    (lastCall.op = "writeSettings" /\ ~lastCall.dryRun) =>
        /\ lastCall.sent = 1
        /\ {f.name : f \in {lastCall.body[i] : i \in 1..Len(lastCall.body)}}
              = Given(lastCall.arg)
        /\ Len(lastCall.body) = Cardinality(Given(lastCall.arg))
        /\ \A i \in 1..Len(lastCall.body) :
              \/ lastCall.body[i] = [name |-> "led", value |-> ToString(lastCall.arg.led)]
              \/ lastCall.body[i] = [name |-> "pwr", value |-> ToString(lastCall.arg.pwr)]
              \/ lastCall.body[i] = [name |-> "dist", value |-> ToString(lastCall.arg.dist)]
        /\ lastCall.ret <=> lastCall.reply.status = 200

\* C22 witness: a writeSettings given only led, with value 0, sent its POST
\* and returned true.
C22_Witness ==
    /\ lastCall.op = "writeSettings"
    /\ ~lastCall.dryRun
    /\ lastCall.arg = [led |-> 0, pwr |-> Undefined, dist |-> Undefined]
    /\ lastCall.body = <<[name |-> "led", value |-> "0"]>>
    /\ lastCall.ret

\* C23: no operation of the client propagates an exception to its caller:
\* getDeviceInfo and readSettings end with a value or with null, whatever
\* the device answered.
C23_FailuresAbsorbed ==
    lastFetch.ret # "throw"

\* C24: parseSettingsAndInfoFromHtml throws on no page, a page where a marker
\* is followed by an element or by nothing included; the info field of such
\* a marker has no value in the result.
C24_ExtractNeverThrows ==
    lastCall.op = "parseSettingsAndInfoFromHtml" =>
        /\ ~lastCall.threw
        /\ \A f \in InfoFields :
              (/\ SpanIndex(f) <= Len(lastCall.page.spans)
               /\ lastCall.page.spans[SpanIndex(f)].next # "text")
              => ~Truthy(lastCall.info, f)

\* an input the claim of the settings entries leaves out: an unchecked
\* radio button or an input without a name
UncheckedOrUnnamed(el) ==
    \/ el.type = "radio" /\ ~el.checked
    \/ el.name = ""

\* an input that yields no entry: one of those, and with byClass also an
\* input of class button
LeftOut(el, byClass) == UncheckedOrUnnamed(el) \/ (byClass /\ el.button)

\* the names the settings of a page have entries for
EntryNames(els, byClass) ==
    {els[i].name : i \in {k \in 1..Len(els) : ~LeftOut(els[k], byClass)}}

\* C25: for a page without any marker the extraction does not throw, the
\* settings hold an entry for the inputs of the page and no info field is
\* in the result.
C25_NoMarkersNoInfo ==
    (lastCall.op = "parseSettingsAndInfoFromHtml" /\ lastCall.page.spans = <<>>) =>
        /\ ~lastCall.threw
        /\ DOMAIN lastCall.info = {}
        /\ DOMAIN lastCall.settings = EntryNames(lastCall.page.inputs, TRUE)

\* C25 witness: a page without a paragraph and with a range input was
\* parsed to settings with that entry.
C25_Witness ==
    /\ lastCall.op = "parseSettingsAndInfoFromHtml"
    /\ ~lastCall.page.para
    /\ lastCall.page.spans = <<>>
    /\ ~lastCall.threw
    /\ DOMAIN lastCall.settings = {"led"}
    /\ lastCall.settings["led"].kind = "range"

\* C26: for a page whose markers are all followed by text, every info
\* field whose marker is on the page is in the result, however many markers
\* the page has.
C26_NoFixedMarkerCount ==
    (/\ lastCall.op = "parseSettingsAndInfoFromHtml"
     /\ \A i \in 1..Len(lastCall.page.spans) : lastCall.page.spans[i].next = "text")
    => /\ ~lastCall.threw
       /\ \A f \in InfoFields :
             SpanIndex(f) <= Len(lastCall.page.spans) <=> f \in DOMAIN lastCall.info

\* the entry of name n is the one of the last input of that name that is
\* not left out: a triple of numbers for a range input, else a boolean for
\* ipconf, true exactly for the value "1", else the value attribute as it is
EntryOfLast(els, byClass, settings, n) ==
    LET last == CHOOSE i \in 1..Len(els) :
                    /\ els[i].name = n /\ ~LeftOut(els[i], byClass)
                    /\ \A k \in (i + 1)..Len(els) :
                          ~(els[k].name = n /\ ~LeftOut(els[k], byClass))
        el == els[last]
    IN IF el.type = "range"
       THEN settings[n] = [kind |-> "range", value |-> ParseInt(el.value),
                           min |-> ParseInt(el.min), max |-> ParseInt(el.max)]
       ELSE IF n = "ipconf"
            THEN /\ settings[n].kind = "boolean"
                 /\ settings[n].b <=> (el.value.has /\ el.value.chars = <<"1">>)
            ELSE settings[n] = [kind |-> "attr", attr |-> el.value]

\* C27: the settings of a page hold exactly one entry for each name of an
\* input that is not an unchecked radio button and has a name: the triple
\* {value, min, max} for a range input, true or false for ipconf, the raw
\* value for any other input, whatever its name.
C27_SettingsEntries ==
    (lastCall.op = "parseSettingsAndInfoFromHtml" /\ ~lastCall.threw) =>
        /\ DOMAIN lastCall.settings
             = EntryNames(lastCall.page.inputs, FALSE)
        /\ \A n \in DOMAIN lastCall.settings \cap
                      EntryNames(lastCall.page.inputs, FALSE) :
              EntryOfLast(lastCall.page.inputs, FALSE, lastCall.settings, n)

\* C27 as amended: the same for each name of an input that is not an
\* unchecked radio button, has a name and does not carry class button.
C27_SettingsEntriesAmended ==
    (lastCall.op = "parseSettingsAndInfoFromHtml" /\ ~lastCall.threw) =>
        /\ DOMAIN lastCall.settings = EntryNames(lastCall.page.inputs, TRUE)
        /\ \A n \in DOMAIN lastCall.settings :
              EntryOfLast(lastCall.page.inputs, TRUE, lastCall.settings, n)

\* C27 witness: a page with a checked ipconf radio button and a named input
\* of class button was parsed: ipconf is true and the button has no entry.
C27_Witness ==
    /\ lastCall.op = "parseSettingsAndInfoFromHtml"
    /\ ~lastCall.threw
    /\ \E i, k \in 1..Len(lastCall.page.inputs) :
          /\ lastCall.page.inputs[i].button
          /\ lastCall.page.inputs[i].name = "save"
          /\ lastCall.page.inputs[k].type = "radio"
          /\ lastCall.page.inputs[k].checked
    /\ DOMAIN lastCall.settings = {"ipconf"}
    /\ lastCall.settings["ipconf"].b

\* C28: a run of onMessage for a testConnection message that is over has
\* made exactly one sendTo call: an error without a request to the device
\* when the message gives no ip, success = true when the probe of the
\* temporary client succeeded, success = false when it failed; and a step
\* of onMessage leaves the session of the adapter's client, the connection
\* state and the timers as they were.
C28_OneReplyPerTest ==
    /\ []((/\ lastCall.op = "onMessage"
           /\ lastCall.msg.command = "testConnection"
           /\ lastCall.over)
          => /\ lastCall.replies = 1
             /\ lastCall.msg.payload # "ip"
                  => (lastCall.requests = 0 /\ lastCall.success = "none")
             /\ lastCall.msg.payload = "ip"
                  => (lastCall.requests = 1
                      /\ lastCall.success \in {"true", "false"}))
    /\ [][(lastCall'.op = "onMessage" /\ lastCall' # lastCall)
            => UNCHANGED <<sessionVars, isConnected, connection, pollVars,
                           reconnectVars>>]_vars

\* C29: when onStateChange calls writeSettings for a change of one setting,
\* the value it sends for each of the other two is the value of that
\* setting's state as last known, and no built-in default: also when that
\* value is 0, and no value at all when the state was never written.
C29_OtherSettingsKept ==
    (lastCall.op = "writeSettings" /\ lastCall.via = "event") =>
        \A f \in SettingKeys \ {lastCall.key} : lastCall.arg[f] = lastCall.got[f]

\* C33: at most one polling timer is armed and at most one connectToDevice
\* activation is in progress.
C33_OneTimerOneRun ==
    /\ Cardinality(pollTimers) <= 1
    /\ Count("connect") <= 1

\* C33 witness: a connectToDevice activation started by the reconnect timer
\* is in progress after an earlier activation has finished.
C33_Witness ==
    /\ Count("connect") = 1
    /\ lastRun # NoRun
    /\ reconnectTimers = {}

\* C31: a call of onStateChange for a deleted state or for a state with
\* ack = true starts nothing: no request is sent to the device, no call of
\* the client is begun, and no state is written.
C31_AckedChangesIgnored ==
    [][(/\ lastCall'.op = "onStateChange"
        /\ lastCall' # lastCall
        /\ ~lastCall'.ev.present \/ lastCall'.ev.ack)
       => UNCHANGED <<tasks, triggers, pushes, stored>>]_vars

\* C31 witness: onStateChange was given the acknowledged value of
\* settings.ledBrightness the adapter itself wrote after a writeSettings,
\* and no command is in progress.
C31_Witness ==
    /\ lastCall.op = "onStateChange"
    /\ lastCall.ev.ack
    /\ lastCall.ev.name = "settings.ledBrightness"
    /\ stored["led"] = [val |-> lastCall.ev.val, ack |-> TRUE]
    /\ Count("cmd") = 0

\* C32: when the first settings command onStateChange handled is over, the
\* three settings states are acknowledged with the values that were sent if
\* writeSettings returned true, and none of them is acknowledged if it
\* returned false.
C32_AllOrNothing ==
    (/\ lastCall.op = "writeSettings"
     /\ lastCall.via = "event"
     /\ triggers = 1
     /\ Count("cmd") = 0) =>
        IF lastCall.ret
        THEN \A f \in SettingKeys :
                stored[f] = [val |-> lastCall.arg[f], ack |-> TRUE]
        ELSE \A f \in SettingKeys : ~stored[f].ack
====
